---- MODULE Spec2Model ----
(***************************************************************************)
(* Model of telegram_service.py: the collection engine (collect_all and    *)
(* fetch_channel_messages), its three kinds of files (run artifacts,       *)
(* latest.json, checkpoints.json), the poll loop, the refresh request and  *)
(* the read endpoints.                                                     *)
(*                                                                         *)
(* asyncio runs every coroutine on one event loop: a coroutine loses the   *)
(* loop only at an await.  collect_all awaits inside the channel loop      *)
(* (get_entity, iter_messages, sleep) and at the exit of `async with       *)
(* client`; lines 116-126 hold no await.  get_checkpoints is a plain `def` *)
(* endpoint, which FastAPI runs on a worker thread, so it may run between  *)
(* any two file operations of the event loop; so may a crash of the        *)
(* process.                                                                *)
(***************************************************************************)
EXTENDS Integers, Sequences, FiniteSets, TLC

\* ---------------------------------------------------------------- bounds
MaxMsgs == 2        \* messages a channel may hold (Spec, SpecRun), ids of SpecMerge
MaxRuns == 2        \* collect_all runs that may be started
MaxHeld == 3        \* messages the fetched channel may hold (SpecFetch)
MaxClock == 2       \* hours the wall clock may advance (SpecFetch)
MaxResults == 3     \* records a run may have fetched (SpecMerge)
MaxViews == 1       \* largest views counter of a record (SpecMerge)

\* --------------------------------------------------------- configuration
\* CHANNELS (lines 16-19): the comma-separated list, in order.
CHANNELS == <<"a", "b">>

\* AUTO_SINCE_HOURS (line 29), counted in hours of the model clock.
AUTO_SINCE_HOURS == 1

\* PER_CHANNEL_LIMIT (line 30): the cap the poll loop passes.
PER_CHANNEL_LIMIT == 1

\* per_channel_limit's default (line 96): what get_messages passes.
DefaultLimit == 500

\* Query(24, ge=1, le=168) of get_messages (line 162): the least since_hours,
\* and the choices within the clock's range.
MinSinceHours == 1

SinceHoursChoices == MinSinceHours..MaxClock

\* Python's None, for msg.date, min_id and dict.get: a value that is no id,
\* no date and no time.
None == -100

ChannelSet == {CHANNELS[i] : i \in 1..Len(CHANNELS)}

\* The callers of collect_all: _poller_loop (line 136), get_messages with
\* refresh (line 164) and the command line (lines 218-227).
Runs == {"poll", "req", "cli"}

VARIABLES
    now,          \* utcnow(), in hours
    sameSecond,   \* TRUE while utcnow() is still in the second of the newest artifact's name
    chan,         \* transport: chan[c] = the messages of channel c, oldest first
    cpFile,       \* exports/checkpoints.json
    latestFile,   \* exports/latest.json
    artifacts,    \* exports/telegram_messages_<run_ts>.json, oldest name first
    pc,           \* pc[r]: where the task r stands
    idx,          \* idx[r]: index in CHANNELS of the channel being fetched
    since_dt,     \* collect_all's since_dt
    limit,        \* collect_all's per_channel_limit
    cp,           \* collect_all's cp
    new_cp,       \* collect_all's new_cp
    results,      \* collect_all's results
    nRuns,        \* collect_all runs started so far
    hist,         \* history of the files, for stating the properties
    call          \* a single call of a function on given arguments, and its result

vars == <<now, sameSecond, chan, cpFile, latestFile, artifacts, pc, idx,
          since_dt, limit, cp, new_cp, results, nRuns, hist, call>>

\* ------------------------------------------------------------ data, files
EmptyMap == [c \in {} |-> 0]

Absent == [st |-> "absent", data |-> <<>>]

\* open(path, "w") truncates the file at once; the content arrives with
\* json.dump and the close at the end of the `with` block.
Truncated == [st |-> "partial", data |-> <<>>]

Complete(d) == [st |-> "complete", data |-> d]

Max(S) == CHOOSE x \in S : \A y \in S : y <= x

Range(s) == {s[i] : i \in 1..Len(s)}

Reverse(s) == [i \in 1..Len(s) |-> s[Len(s) + 1 - i]]

\* A record of the message list, lines 74-84.  text, forwards, reactions and
\* reply_count are passed through like views; url is a function of channel
\* and id.
Rec(channel, msg) ==
    [channel |-> channel, id |-> msg.id, date |-> msg.date, views |-> msg.views]

\* f"{r['channel']}:{r['id']}" (line 116): the channel, a colon, the decimal
\* digits of the id.  The id holds no colon, so the string determines both.
Key(r) == <<r.channel, ":", r.id>>

Keys(rs) == {Key(rs[i]) : i \in 1..Len(rs)}

Ids(rs) == {rs[i].id : i \in 1..Len(rs)}

\* ---------------------------------------------------------- checkpoints
\* load_cp, lines 48-52: the mapping of the file, {} when there is no file.
\* json.load raises on a file that holds no complete JSON text.
LoadCpRaises == cpFile.st = "partial"

LoadCp == IF cpFile.st = "complete" THEN cpFile.data ELSE EmptyMap

\* dict(cp), line 99.
InitNewCp_fresh(m) == EmptyMap

InitNewCp(m) == m

\* new_cp[ch] = v, line 113.
Put(m, k, v) == [x \in DOMAIN m \cup {k} |-> IF x = k THEN v ELSE m[x]]

\* cp.get(ch) if cp else None, line 107.
LastId(m, ch) == IF m # EmptyMap /\ ch \in DOMAIN m THEN m[ch] ELSE None

\* "incremental" if cp else "bootstrap", line 102.
Mode(m) == IF m # EmptyMap THEN "incremental" ELSE "bootstrap"

\* -------------------------------------------------------------- transport
\* client.iter_messages(entity, limit=None, min_id=min_id), line 69: the
\* messages of the channel with an id above min_id, newest first.
IterMessages(c, min_id) ==
    Reverse(SelectSeq(chan[c], LAMBDA m : min_id = None \/ m.id > min_id))

\* What the transport does during one fetch: get_entity raises ("entity"),
\* or the iteration yields `after` messages and then raises FloodWaitError
\* ("flood") or another exception ("err"), or it raises nothing ("none").
Responses(stream) ==
    {[fail |-> "none", after |-> 0], [fail |-> "entity", after |-> 0]}
    \cup [fail : {"flood", "err"}, after : 0..Len(stream)]

\* line 72: the bootstrap horizon.
HorizonStop_noMode(min_id, date, since) == date < since

HorizonStop_inclusive(min_id, date, since) == min_id = None /\ date <= since

HorizonStop(min_id, date, since) == min_id = None /\ date < since

\* line 86: `if limit and len(out) >= limit`.
CapReached_late(lim, n) == lim # 0 /\ n > lim

CapReached(lim, n) == lim # 0 /\ n >= lim

\* lines 69-87: the loop over the stream from its i-th message, with `out`
\* collected so far.  `end` tells how the loop was left.
RECURSIVE FetchLoop(_, _, _, _, _, _, _, _)
FetchLoop(channel, since, lim, min_id, stream, resp, i, out) ==
    IF resp.fail \in {"flood", "err"} /\ i = resp.after + 1
    THEN [out |-> out, end |-> resp.fail]
    ELSE IF i > Len(stream)
    THEN [out |-> out, end |-> "exhausted"]
    ELSE IF stream[i].date = None
    THEN FetchLoop(channel, since, lim, min_id, stream, resp, i + 1, out)
    ELSE IF HorizonStop(min_id, stream[i].date, since)
    THEN [out |-> out, end |-> "horizon"]
    ELSE LET out2 == Append(out, Rec(channel, stream[i]))
         IN IF CapReached(lim, Len(out2))
            THEN [out |-> out2, end |-> "cap"]
            ELSE FetchLoop(channel, since, lim, min_id, stream, resp,
                           i + 1, out2)

\* fetch_channel_messages, lines 59-94, against a transport that answers
\* `stream` and `resp`.  slept: whether the call awaited a sleep (line 88
\* after the loop, line 91 after a FloodWaitError).
fetch_channel_messages(channel, since, lim, min_id, stream, resp) ==
    IF resp.fail = "entity"
    THEN [out |-> <<>>, end |-> "entity", slept |-> FALSE]
    ELSE LET f == FetchLoop(channel, since, lim, min_id, stream, resp,
                            1, <<>>)
         IN [out |-> f.out, end |-> f.end, slept |-> f.end # "err"]

\* ------------------------------------------------------------------ dedupe
\* {key: r for r in results} (line 116): a dict keeps a key at the place of
\* its first insertion and the value of its last.
DictPut(d, k, v) ==
    IF \E i \in 1..Len(d) : d[i].k = k
    THEN [i \in 1..Len(d) |-> IF d[i].k = k THEN [k |-> k, v |-> v] ELSE d[i]]
    ELSE Append(d, [k |-> k, v |-> v])

RECURSIVE DictOf(_, _)
DictOf(rs, n) ==
    IF n = 0 THEN <<>> ELSE DictPut(DictOf(rs, n - 1), Key(rs[n]), rs[n])

Values(d) == [i \in 1..Len(d) |-> d[i].v]

\* final, line 116.
Dedupe_keepAll(rs) == rs

Dedupe(rs) == Values(DictOf(rs, Len(rs)))

\* ------------------------------------------------------------ write order
\* The file operations of lines 119-123 and 54-56, in the order collect_all
\* performs them: the run artifact, the latest view, the checkpoints.
WriteOrder_cpFirst ==
    <<"open_cp", "dump_cp", "open_out", "dump_out", "open_latest", "dump_latest">>

WriteOrder ==
    <<"open_out", "dump_out", "open_latest", "dump_latest", "open_cp", "dump_cp">>

StepAfter(s) ==
    LET i == CHOOSE j \in 1..Len(WriteOrder) : WriteOrder[j] = s
    IN IF i = Len(WriteOrder) THEN "return" ELSE WriteOrder[i + 1]

\* Where a task holds the event loop without an await: lines 116-126 of
\* collect_all and, for the request, lines 166-181 that follow it.
BlockPcs == Range(WriteOrder) \cup {"return", "read"}

LoopFree == \A r \in Runs : pc[r] \notin BlockPcs

\* A run is active from its load_cp to its return.
Active(r) == pc[r] \in {"fetch", "disconnect"} \cup Range(WriteOrder) \cup {"return"}

\* ------------------------------------------------------------------- Init
\* hist.crashSnap: whether the last crash came between a run's dump of the
\* latest view and its save_cp, the items of that view, and whether the
\* checkpoints file still held what the run had loaded.
NoSnap == [set |-> FALSE, items |-> {}, cpKept |-> TRUE]

\* The files of the export directory.  hist.atStart[r]: the files as the
\* run r found them, <<>> when r is not running.  hist.cancelAt: where the
\* poll task stood when it was cancelled, "none" before.
Files == <<cpFile, latestFile, artifacts>>

Init ==
    /\ now = 0
    /\ sameSecond = FALSE
    /\ chan = [c \in ChannelSet |-> <<>>]
    /\ cpFile = Absent
    /\ latestFile = Absent
    /\ artifacts = <<>>
    /\ pc = [r \in Runs |-> "idle"]
    /\ idx = [r \in Runs |-> 0]
    /\ since_dt = [r \in Runs |-> 0]
    /\ limit = [r \in Runs |-> 0]
    /\ cp = [r \in Runs |-> EmptyMap]
    /\ new_cp = [r \in Runs |-> EmptyMap]
    /\ results = [r \in Runs |-> <<>>]
    /\ nRuns = 0
    /\ hist = [written |-> {}, overlap |-> FALSE, curCp |-> EmptyMap,
               curLatest |-> {}, crashSnap |-> NoSnap, tornRead |-> FALSE,
               atStart |-> [r \in Runs |-> <<>>], cancelAt |-> "none"]
    /\ call = <<>>

\* The locals of a collect_all call that has ended.
Forget(r) ==
    /\ idx' = [idx EXCEPT ![r] = 0]
    /\ since_dt' = [since_dt EXCEPT ![r] = 0]
    /\ limit' = [limit EXCEPT ![r] = 0]
    /\ cp' = [cp EXCEPT ![r] = EmptyMap]
    /\ new_cp' = [new_cp EXCEPT ![r] = EmptyMap]
    /\ results' = [results EXCEPT ![r] = <<>>]

\* Where collect_all's exception leaves its caller: _poller_loop catches it
\* and goes to its sleep (lines 137-139); get_messages and the command line
\* let it pass.
AfterRaise_dies(r) == IF r = "poll" THEN "done" ELSE "idle"

AfterRaise(r) == IF r = "poll" THEN "sleep" ELSE "idle"

\* Where collect_all's return leaves its caller: _poller_loop at its sleep
\* (line 139), get_messages at line 166.
AfterReturn(r) ==
    IF r = "poll" THEN "sleep" ELSE IF r = "req" THEN "read" ELSE "idle"

\* ------------------------------------------------------------ environment
\* An hour passes.
Tick ==
    /\ now < MaxClock
    /\ now' = now + 1
    /\ sameSecond' = FALSE
    /\ UNCHANGED <<chan, cpFile, latestFile, artifacts, pc, idx, since_dt,
                   limit, cp, new_cp, results, nRuns, hist, call>>

\* The second of the newest artifact's name ends.
SecondTick ==
    /\ sameSecond
    /\ sameSecond' = FALSE
    /\ UNCHANGED <<now, chan, cpFile, latestFile, artifacts, pc, idx, since_dt,
                   limit, cp, new_cp, results, nRuns, hist, call>>

\* A message is posted to channel c, which holds fewer than `room`: ids grow
\* by one, msg.date is the time of posting, or None for a message without a
\* date.
Post(c, dated, room) ==
    /\ Len(chan[c]) < room
    /\ chan' = [chan EXCEPT ![c] = Append(@, [id |-> Len(@) + 1,
                               date |-> IF dated THEN now ELSE None,
                               views |-> 0])]
    /\ UNCHANGED <<now, sameSecond, cpFile, latestFile, artifacts, pc, idx,
                   since_dt, limit, cp, new_cp, results, nRuns, hist, call>>

\* ------------------------------------------------------------ collect_all
\* Lines 97-105, with since_hours = h and per_channel_limit = lim.  There is
\* no test of whether a run is under way.  load_cp may raise, and so may the
\* connection of `async with client:` (ok = FALSE); then collect_all raises.
Start(r, h, lim, ok) ==
    /\ pc[r] = "idle"
    /\ LoopFree
    /\ nRuns < MaxRuns
    /\ nRuns' = nRuns + 1
    /\ IF LoadCpRaises \/ ~ok
       THEN /\ pc' = [pc EXCEPT ![r] = AfterRaise(r)]
            /\ UNCHANGED <<idx, since_dt, limit, cp, new_cp, results, hist, call>>
       ELSE /\ pc' = [pc EXCEPT ![r] = "fetch"]
            /\ since_dt' = [since_dt EXCEPT ![r] = now - h]
            /\ limit' = [limit EXCEPT ![r] = lim]
            /\ cp' = [cp EXCEPT ![r] = LoadCp]
            /\ new_cp' = [new_cp EXCEPT ![r] = InitNewCp(LoadCp)]
            /\ results' = [results EXCEPT ![r] = <<>>]
            /\ idx' = [idx EXCEPT ![r] = 1]
            /\ hist' = [hist EXCEPT
                          !.overlap = @ \/ \E q \in Runs \ {r} : Active(q),
                          !.atStart[r] = Files]
            /\ call' = <<>>
    /\ UNCHANGED <<now, sameSecond, chan, cpFile, latestFile, artifacts>>

\* new_cp after a fetch of ch that returned msgs, lines 112-113.
AdvanceCp(m, ch, msgs) ==
    IF msgs # <<>> THEN Put(m, ch, Max(Ids(msgs))) ELSE m

\* One pass of the loop of lines 106-113 over channel ch, with cp = m and
\* new_cp = nm, when the transport answers resp: last_id, what iter_messages
\* would yield, what fetch_channel_messages returns, and new_cp after it.
PassOf(ch, m, nm, since, lim, resp) ==
    LET last_id == LastId(m, ch)
        stream == IterMessages(ch, last_id)
        f == fetch_channel_messages(ch, since, lim, last_id, stream, resp)
    IN [ch |-> ch, cp |-> m, min_id |-> last_id, stream |-> stream,
        resp |-> resp, since |-> since, lim |-> lim,
        out |-> f.out, end |-> f.end, slept |-> f.slept,
        new_cp |-> AdvanceCp(nm, ch, f.out)]

Pass(r, resp) ==
    PassOf(CHANNELS[idx[r]], cp[r], new_cp[r], since_dt[r], limit[r], resp)

\* Which ends of the iteration leave fetch_channel_messages as an exception:
\* none, lines 89-93 catch FloodWaitError and every other Exception.
Propagates_flood(end) == end = "flood"

Propagates_entity(end) == end = "entity"

Propagates(end) == FALSE

FetchBody(r, resp) ==
    /\ pc[r] = "fetch"
    /\ LoopFree
    /\ resp \in Responses(Pass(r, resp).stream)
    /\ sameSecond' = (sameSecond /\ ~Pass(r, resp).slept)
    /\ IF Propagates(Pass(r, resp).end)
       THEN /\ pc' = [pc EXCEPT ![r] = AfterRaise(r)]
            /\ Forget(r)
       ELSE /\ results' = [results EXCEPT ![r] = @ \o Pass(r, resp).out]
            /\ new_cp' = [new_cp EXCEPT ![r] = Pass(r, resp).new_cp]
            /\ UNCHANGED <<since_dt, limit, cp>>
            /\ IF idx[r] < Len(CHANNELS)
               THEN /\ idx' = [idx EXCEPT ![r] = @ + 1]
                    /\ pc' = pc
               ELSE /\ idx' = idx
                    /\ pc' = [pc EXCEPT ![r] = "disconnect"]
    /\ UNCHANGED <<now, chan, cpFile, latestFile, artifacts, nRuns, hist>>

\* The pass, in the system.
Fetch(r, resp) == FetchBody(r, resp) /\ UNCHANGED call

\* The pass, with its arguments and its result kept for the properties of
\* fetch_channel_messages.
FetchRecorded(r, resp) == FetchBody(r, resp) /\ call' = Append(call, Pass(r, resp))

\* In place of the passes of a run: the run has fetched one more record, any
\* record.  For the properties of lines 115-123, which hold of every list.
FetchedAny(r, rec) ==
    /\ pc[r] = "fetch"
    /\ LoopFree
    /\ Len(results[r]) < MaxResults
    /\ results' = [results EXCEPT ![r] = Append(@, rec)]
    /\ new_cp' = [new_cp EXCEPT ![r] = AdvanceCp(@, rec.channel, <<rec>>)]
    /\ UNCHANGED <<now, sameSecond, chan, cpFile, latestFile, artifacts, pc,
                   idx, since_dt, limit, cp, nRuns, hist, call>>

\* The loop of lines 106-113 ends.
LoopEnds(r) ==
    /\ pc[r] = "fetch"
    /\ LoopFree
    /\ pc' = [pc EXCEPT ![r] = "disconnect"]
    /\ UNCHANGED <<now, sameSecond, chan, cpFile, latestFile, artifacts, idx,
                   since_dt, limit, cp, new_cp, results, nRuns, hist, call>>

\* The exit of `async with client:` returns and lines 116-118 run.
Disconnect(r) ==
    /\ pc[r] = "disconnect"
    /\ LoopFree
    /\ pc' = [pc EXCEPT ![r] = WriteOrder[1]]
    /\ UNCHANGED <<now, sameSecond, chan, cpFile, latestFile, artifacts, idx,
                   since_dt, limit, cp, new_cp, results, nRuns, hist, call>>

\* open(outfile, "w"), line 119.  The name holds run_ts to the second (line
\* 117): within the second of the newest artifact it is that artifact's name.
OpenOut(r) ==
    /\ pc[r] = "open_out"
    /\ artifacts' = IF sameSecond /\ artifacts # <<>>
                    THEN [artifacts EXCEPT ![Len(artifacts)] = Truncated]
                    ELSE Append(artifacts, Truncated)
    /\ sameSecond' = TRUE
    /\ pc' = [pc EXCEPT ![r] = StepAfter("open_out")]
    /\ UNCHANGED <<now, chan, cpFile, latestFile, idx, since_dt, limit, cp,
                   new_cp, results, nRuns, hist, call>>

\* json.dump(final, f) and the close, line 120.
DumpOut(r) ==
    /\ pc[r] = "dump_out"
    /\ artifacts' = [artifacts EXCEPT ![Len(artifacts)] = Complete(Dedupe(results[r]))]
    /\ hist' = [hist EXCEPT !.written = @ \cup Keys(Dedupe(results[r]))]
    /\ pc' = [pc EXCEPT ![r] = StepAfter("dump_out")]
    /\ UNCHANGED <<now, sameSecond, chan, cpFile, latestFile, idx, since_dt,
                   limit, cp, new_cp, results, nRuns, call>>

\* open(LATEST_PATH, "w"), line 121.
OpenLatest(r) ==
    /\ pc[r] = "open_latest"
    /\ latestFile' = Truncated
    /\ pc' = [pc EXCEPT ![r] = StepAfter("open_latest")]
    /\ UNCHANGED <<now, sameSecond, chan, cpFile, artifacts, idx, since_dt,
                   limit, cp, new_cp, results, nRuns, hist, call>>

\* json.dump(final, f) and the close, line 122.
DumpLatest(r) ==
    /\ pc[r] = "dump_latest"
    /\ latestFile' = Complete(Dedupe(results[r]))
    /\ hist' = [hist EXCEPT !.written = @ \cup Keys(Dedupe(results[r]))]
    /\ pc' = [pc EXCEPT ![r] = StepAfter("dump_latest")]
    /\ UNCHANGED <<now, sameSecond, chan, cpFile, artifacts, idx, since_dt,
                   limit, cp, new_cp, results, nRuns, call>>

\* save_cp: open(CP_PATH, "w"), line 55.
OpenCp(r) ==
    /\ pc[r] = "open_cp"
    /\ cpFile' = Truncated
    /\ pc' = [pc EXCEPT ![r] = StepAfter("open_cp")]
    /\ UNCHANGED <<now, sameSecond, chan, latestFile, artifacts, idx, since_dt,
                   limit, cp, new_cp, results, nRuns, hist, call>>

\* save_cp: json.dump(cp, f) and the close, line 56.
DumpCp(r) ==
    /\ pc[r] = "dump_cp"
    /\ cpFile' = Complete(new_cp[r])
    /\ pc' = [pc EXCEPT ![r] = StepAfter("dump_cp")]
    /\ UNCHANGED <<now, sameSecond, chan, latestFile, artifacts, idx, since_dt,
                   limit, cp, new_cp, results, nRuns, hist, call>>

\* Lines 125-126: the run has completed and collect_all returns.
Return(r) ==
    /\ pc[r] = "return"
    /\ pc' = [pc EXCEPT ![r] = AfterReturn(r)]
    /\ Forget(r)
    /\ hist' = [hist EXCEPT
                  !.curCp = cpFile.data,
                  !.curLatest = Keys(latestFile.data),
                  !.crashSnap = NoSnap,
                  !.atStart[r] = <<>>]
    /\ UNCHANGED <<now, sameSecond, chan, cpFile, latestFile, artifacts,
                   nRuns, call>>

\* ------------------------------------------------------------- poll loop
\* await asyncio.sleep(POLL_INTERVAL_SEC) returns, line 139.
Wake ==
    /\ pc["poll"] = "sleep"
    /\ LoopFree
    /\ pc' = [pc EXCEPT !["poll"] = "idle"]
    /\ sameSecond' = FALSE
    /\ UNCHANGED <<now, chan, cpFile, latestFile, artifacts, idx, since_dt,
                   limit, cp, new_cp, results, nRuns, hist, call>>

\* open() or json.dump of lines 119-123 and 55-56 raises (OSError: no space
\* left, no permission): collect_all raises; a file that was opened stays as
\* far as it was written.
WriteRaises(r) ==
    /\ pc[r] \in Range(WriteOrder)
    /\ pc' = [pc EXCEPT ![r] = AfterRaise(r)]
    /\ Forget(r)
    /\ UNCHANGED <<now, sameSecond, chan, cpFile, latestFile, artifacts,
                   nRuns, hist, call>>

\* Where the CancelledError that _poller_task.cancel() (line 156) throws
\* into the task at its await leaves the task: CancelledError is not an
\* Exception, so neither line 92 nor line 137 catches it, and the sleep of
\* line 139 is outside the try; the task ends.
AfterCancel_swallowed(at) == IF at = "sleep" THEN "idle" ELSE "done"

AfterCancel(at) == "done"

\* _on_shutdown, lines 152-158, while the poll task is suspended at an await:
\* inside a fetch (lines 62, 69, 88, 91), at the exit of `async with client`
\* or in the sleep of line 139.
Cancel ==
    /\ LoopFree
    /\ pc["poll"] \in {"fetch", "disconnect", "sleep"}
    /\ pc' = [pc EXCEPT !["poll"] = AfterCancel(pc["poll"])]
    /\ Forget("poll")
    /\ hist' = [hist EXCEPT !.cancelAt = pc["poll"], !.atStart["poll"] = <<>>]
    /\ UNCHANGED <<now, sameSecond, chan, cpFile, latestFile, artifacts,
                   nRuns, call>>

\* ---------------------------------------------------------- read endpoints
\* A reader that opens a file between its truncation and the end of the
\* dump finds no complete JSON text, and json.load raises.
Torn(f) == f.st = "partial"

\* get_messages, lines 166-181, after its refresh or without one: the read of
\* latest.json and the response.
ReadLatest ==
    /\ \/ pc["req"] = "read"
       \/ pc["req"] = "idle" /\ LoopFree
    /\ hist' = [hist EXCEPT !.tornRead = @ \/ Torn(latestFile)]
    /\ pc' = [pc EXCEPT !["req"] = "idle"]
    /\ UNCHANGED <<now, sameSecond, chan, cpFile, latestFile, artifacts, idx,
                   since_dt, limit, cp, new_cp, results, nRuns, call>>

\* get_checkpoints, lines 188-190, on a worker thread: load_cp and the
\* response.
GetCheckpoints ==
    /\ hist' = [hist EXCEPT !.tornRead = @ \/ Torn(cpFile)]
    /\ UNCHANGED <<now, sameSecond, chan, cpFile, latestFile, artifacts, pc,
                   idx, since_dt, limit, cp, new_cp, results, nRuns, call>>

\* ------------------------------------------------------------------ crash
\* The process dies and is started again: the files stay as they are, every
\* task starts over.
Crash ==
    /\ \E r \in Runs : pc[r] # "idle"
    /\ pc' = [r \in Runs |-> "idle"]
    /\ idx' = [r \in Runs |-> 0]
    /\ since_dt' = [r \in Runs |-> 0]
    /\ limit' = [r \in Runs |-> 0]
    /\ cp' = [r \in Runs |-> EmptyMap]
    /\ new_cp' = [r \in Runs |-> EmptyMap]
    /\ results' = [r \in Runs |-> <<>>]
    /\ hist' = [hist EXCEPT
                  !.crashSnap =
                      IF \E r \in Runs : pc[r] = "open_cp"
                      THEN [set |-> TRUE, items |-> Keys(latestFile.data),
                            cpKept |-> \A r \in Runs :
                                          pc[r] = "open_cp" => LoadCp = cp[r]]
                      ELSE @,
                  !.atStart = [r \in Runs |-> <<>>]]
    /\ UNCHANGED <<now, sameSecond, chan, cpFile, latestFile, artifacts, nRuns, call>>

\* --------------------------------------------------------- specifications
AnyResp == [fail : {"none", "entity", "flood", "err"}, after : 0..MaxHeld]

\* The file operations of a run, lines 116-126.
Commit(r) ==
    \/ Disconnect(r)
    \/ OpenOut(r)
    \/ DumpOut(r)
    \/ OpenLatest(r)
    \/ DumpLatest(r)
    \/ OpenCp(r)
    \/ DumpCp(r)
    \/ Return(r)

\* The service: the poll loop, refresh requests, the read endpoints, the
\* transport and crashes.  The clock stands within one hour, so every
\* message is inside the horizon; a pass cut short by the horizon returns a
\* prefix of the stream, as a pass cut short by an exception does.
Next ==
    \/ SecondTick
    \/ \E c \in ChannelSet, dated \in BOOLEAN : Post(c, dated, MaxMsgs)
    \/ \E ok \in BOOLEAN : Start("poll", AUTO_SINCE_HOURS, PER_CHANNEL_LIMIT, ok)
    \/ \E ok \in BOOLEAN : Start("req", MinSinceHours, DefaultLimit, ok)
    \/ \E r \in Runs, resp \in AnyResp : Fetch(r, resp)
    \/ \E r \in Runs : Commit(r)
    \/ Wake
    \/ ReadLatest
    \/ GetCheckpoints
    \/ Crash

Spec == Init /\ [][Next]_vars

\* One run from the command line, with any --per-channel-limit, against
\* channels that grow; every pass is recorded.
NextRun ==
    \/ \E c \in ChannelSet, dated \in BOOLEAN : Post(c, dated, MaxMsgs)
    \/ \E lim \in 0..MaxMsgs : nRuns = 0 /\ Start("cli", AUTO_SINCE_HOURS, lim, TRUE)
    \/ \E resp \in AnyResp : FetchRecorded("cli", resp)
    \/ Commit("cli")

SpecRun == Init /\ [][NextRun]_vars

\* Runs from the command line one after the other, each with any
\* --per-channel-limit, against channels that grow; the passes of the
\* current run are recorded.
NextRuns ==
    \/ \E c \in ChannelSet, dated \in BOOLEAN : Post(c, dated, MaxMsgs)
    \/ \E lim \in 0..MaxMsgs : Start("cli", AUTO_SINCE_HOURS, lim, TRUE)
    \/ \E resp \in AnyResp : FetchRecorded("cli", resp)
    \/ Commit("cli")

SpecRuns == Init /\ [][NextRuns]_vars

\* The poll loop alone, with runs that fail and a shutdown.  The steps of
\* the task itself are fair: a sleep ends, a transport call returns, the
\* synchronous part of a run goes on.
PollStep ==
    \/ \E ok \in BOOLEAN :
           Start("poll", AUTO_SINCE_HOURS, PER_CHANNEL_LIMIT, ok)
    \/ \E resp \in AnyResp : Fetch("poll", resp)
    \/ Commit("poll")
    \/ Wake

NextPoll ==
    \/ \E c \in ChannelSet : Post(c, TRUE, MaxMsgs)
    \/ PollStep
    \/ WriteRaises("poll")
    \/ Cancel

SpecPoll == Init /\ [][NextPoll]_vars /\ WF_vars(PollStep)

\* One run whose passes may have returned any list of records, with
\* repetitions.
RecSet == [channel : ChannelSet, id : 1..MaxMsgs, date : {0}, views : 0..MaxViews]

NextMerge ==
    \/ nRuns = 0 /\ Start("cli", AUTO_SINCE_HOURS, DefaultLimit, TRUE)
    \/ \E rec \in RecSet : FetchedAny("cli", rec)
    \/ LoopEnds("cli")
    \/ Commit("cli")

SpecMerge == Init /\ [][NextMerge]_vars

\* The checkpoint mappings a run may load: every value is the id of a dated
\* message of its channel, which an earlier run has fetched.
CpMaps ==
    {m \in UNION {[S -> 1..MaxHeld] : S \in SUBSET ChannelSet} :
        \A c \in DOMAIN m : \E i \in 1..Len(chan[c]) :
            chan[c][i].id = m[c] /\ chan[c][i].date # None}

\* A single pass of the loop of lines 106-113 over the first channel, on
\* any checkpoint mapping, horizon and cap, at any moment of a transport
\* whose channels grow and whose clock advances.
CallPass(m, h, lim, resp) ==
    /\ call = <<>>
    /\ m \in CpMaps
    /\ resp \in Responses(IterMessages(CHANNELS[1], LastId(m, CHANNELS[1])))
    /\ call' = <<PassOf(CHANNELS[1], m, InitNewCp(m), now - h, lim, resp)>>
    /\ UNCHANGED <<now, sameSecond, chan, cpFile, latestFile, artifacts, pc,
                   idx, since_dt, limit, cp, new_cp, results, nRuns, hist>>

NextFetch ==
    \/ call = <<>> /\ Tick
    \/ \E c \in ChannelSet, dated \in BOOLEAN :
          call = <<>> /\ Post(c, dated, IF c = CHANNELS[1] THEN MaxHeld ELSE 1)
    \/ \E m \in UNION {[S -> 1..MaxHeld] : S \in SUBSET ChannelSet},
          h \in SinceHoursChoices, lim \in 0..MaxHeld, resp \in AnyResp :
          CallPass(m, h, lim, resp)

SpecFetch == Init /\ [][NextFetch]_vars

\* ------------------------------------------------------------------------
\* Properties of the collection run (Spec).

\* C1: checkpoint monotonicity.  When a run that overlapped no other run has
\* saved its checkpoints, every source that had a checkpoint after the
\* previous completed run still has one, and it is no smaller: a source's
\* persisted checkpoint never decreases and is never lost, whatever the
\* fetches of the run returned.
C1_CheckpointMonotonic ==
    \A r \in Runs :
        (pc[r] = "return" /\ ~hist.overlap) =>
            /\ cpFile.st = "complete"
            /\ \A c \in DOMAIN hist.curCp :
                   /\ c \in DOMAIN cpFile.data
                   /\ cpFile.data[c] >= hist.curCp[c]

\* A second run completes after a first one, one source's checkpoint has
\* advanced and another source has kept a checkpoint the run did not touch.
C1_Witness ==
    \E r \in Runs :
        /\ pc[r] = "return"
        /\ ~hist.overlap
        /\ cpFile.st = "complete"
        /\ \E c, d \in DOMAIN hist.curCp :
               /\ c # d
               /\ c \in DOMAIN cpFile.data /\ cpFile.data[c] > hist.curCp[c]
               /\ d \in DOMAIN cpFile.data /\ cpFile.data[d] = hist.curCp[d]

\* C2: checkpoint after data.  Whenever the checkpoints file holds a
\* mapping, at every step and after a crash at any step, each source's
\* checkpoint is at most the highest id of that source that some snapshot
\* file (timestamped artifact or latest view) has completely received.
C2_CheckpointAfterData ==
    cpFile.st = "complete" =>
        \A c \in DOMAIN cpFile.data :
            \E k \in hist.written : k[1] = c /\ k[3] >= cpFile.data[c]

\* A run is cut by a crash after its snapshot was written and before its
\* save_cp: the data is ahead of the checkpoint an earlier run persisted.
C2_Witness ==
    /\ hist.crashSnap.set
    /\ cpFile.st = "complete"
    /\ \E c \in DOMAIN cpFile.data :
           \E k \in hist.written : k[1] = c /\ k[3] > cpFile.data[c]

\* C3: mutual exclusion of runs.  At most one collection run is between its
\* start and its return at any time.
C3_MutualExclusion ==
    \A r, q \in Runs : (Active(r) /\ Active(q)) => r = q

\* C4: snapshot isolation for readers.  No read of the latest view or of
\* the checkpoints file ever returns a partially written file.
C4_SnapshotIsolation == ~hist.tornRead

\* ------------------------------------------------------------------------
\* Properties of the merge (SpecMerge) and of the latest view (Spec).

\* The place of the last item of rs that has key k.
LastIndex(rs, k) == Max({i \in 1..Len(rs) : Key(rs[i]) = k})

\* C5: dedup idempotence.  When a run has written its files, the latest view
\* holds no two items with the same (channel, id) pair, whatever duplicates
\* the fetched items held; each item of the view is the last fetched
\* occurrence of its pair; and the item set of the view is exactly the set
\* of pairs fetched, so that runs that fetch the same items write the same
\* item set.
C5_DedupIdempotent ==
    \A r \in Runs :
        pc[r] = "return" =>
            /\ latestFile.st = "complete"
            /\ \A i, j \in 1..Len(latestFile.data) :
                   Key(latestFile.data[i]) = Key(latestFile.data[j]) => i = j
            /\ Keys(latestFile.data) = Keys(results[r])
            /\ \A i \in 1..Len(latestFile.data) :
                   latestFile.data[i] =
                       results[r][LastIndex(results[r], Key(latestFile.data[i]))]

\* A run has written a view of two items out of three fetched ones, two of
\* which had the same pair and different contents.
C5_Witness ==
    \E r \in Runs :
        /\ pc[r] = "return"
        /\ Len(results[r]) = 3
        /\ Len(latestFile.data) = 2
        /\ \E i, j \in 1..Len(results[r]) :
               /\ i < j
               /\ Key(results[r][i]) = Key(results[r][j])
               /\ results[r][i] # results[r][j]

\* C6: accumulated latest view.  When a run that overlapped no other run has
\* written its files, every item that was in the latest view after the
\* previous completed run is still in the latest view.
C6_AccumulatedLatest ==
    \A r \in Runs :
        (pc[r] = "return" /\ ~hist.overlap) =>
            hist.curLatest \subseteq Keys(latestFile.data)

\* C7: atomicity under crash.  After a crash between a run's snapshot write
\* and its checkpoint write, the checkpoints file holds what that run had
\* loaded, and when the next run to complete has written its files the
\* latest view still holds every item of the interrupted run's snapshot.
C7_AtomicityUnderCrash ==
    /\ hist.crashSnap.set => hist.crashSnap.cpKept
    /\ \A r \in Runs :
           (pc[r] = "return" /\ hist.crashSnap.set /\ ~hist.overlap) =>
               hist.crashSnap.items \subseteq Keys(latestFile.data)

\* ------------------------------------------------------------------------
\* Properties of one fetch (SpecFetch) and of a run's fetches (SpecRun).
\* `call` holds the passes of the loop over the channels, each with what it
\* was given and what it returned.

Min(S) == CHOOSE x \in S : \A y \in S : x <= y

Take(s, n) == SubSeq(s, 1, IF n < Len(s) THEN n ELSE Len(s))

\* The records of the messages of s that have a date, in order.
DatedRecs(ch, s) ==
    LET d == SelectSeq(s, LAMBDA m : m.date # None)
    IN [i \in 1..Len(d) |-> Rec(ch, d[i])]

\* What the transport yielded before it failed, if it failed.
Yielded(p) ==
    IF p.resp.fail = "entity" THEN <<>>
    ELSE IF p.resp.fail \in {"flood", "err"} THEN Take(p.stream, p.resp.after)
    ELSE p.stream

\* The part of s before its first message dated strictly before since.
BeforeFirstOld(s, since) ==
    LET old == {i \in 1..Len(s) : s[i].date # None /\ s[i].date < since}
    IN IF old = {} THEN s ELSE Take(s, Min(old) - 1)

\* C8: incremental cursor.  For a source that has a checkpoint c when the
\* run starts, the fetch is called with min_id = c; it returns only items
\* with id > c, and returns them whatever their date is relative to
\* since_dt: the dated items the transport yielded, up to the cap; with no
\* cap and no failure these are all dated items of the source above c; and
\* when an item is returned the source's new checkpoint is the largest
\* returned id.
C8_IncrementalCursor ==
    \A i \in 1..Len(call) :
        LET p == call[i]
        IN p.ch \in DOMAIN p.cp =>
            /\ p.min_id = p.cp[p.ch]
            /\ \A j \in 1..Len(p.out) : p.out[j].id > p.cp[p.ch]
            /\ p.out = IF p.lim = 0 THEN DatedRecs(p.ch, Yielded(p))
                       ELSE Take(DatedRecs(p.ch, Yielded(p)), p.lim)
            /\ (p.lim = 0 /\ p.resp.fail = "none") =>
                   Ids(p.out) = {m.id : m \in {x \in Range(chan[p.ch]) :
                                    x.date # None /\ x.id > p.cp[p.ch]}}
            /\ p.out # <<>> =>
                   /\ p.ch \in DOMAIN p.new_cp
                   /\ p.new_cp[p.ch] = Max(Ids(p.out))

\* An incremental fetch returns the two items above the checkpoint, one of
\* them dated before since_dt, leaves out an item at the checkpoint, and the
\* checkpoint moves to the larger of the two ids.
C8_Witness ==
    \E i \in 1..Len(call) :
        LET p == call[i]
        IN /\ p.ch \in DOMAIN p.cp
           /\ p.resp.fail = "none"
           /\ Len(p.out) = 2
           /\ \E j \in 1..Len(p.out) : p.out[j].date < p.since
           /\ \E m \in Range(chan[p.ch]) : m.id <= p.cp[p.ch]
           /\ p.new_cp[p.ch] = Max(Ids(p.out))
           /\ p.new_cp[p.ch] > p.cp[p.ch]

\* C9: bootstrap horizon.  For a source with no checkpoint and a transport
\* that does not fail, the fetch is called without min_id and returns
\* exactly the dated items of the newest-first stream that come before the
\* first item dated strictly before since_dt (an item dated since_dt is
\* kept, undated items are skipped and do not count), cut to the first
\* `limit` of them, for every limit of at least one.
C9_BootstrapHorizon ==
    \A i \in 1..Len(call) :
        LET p == call[i]
        IN (p.ch \notin DOMAIN p.cp /\ p.resp.fail = "none" /\ p.lim >= 1) =>
            /\ p.min_id = None
            /\ p.out = Take(DatedRecs(p.ch, BeforeFirstOld(p.stream, p.since)),
                            p.lim)

\* A bootstrap fetch skips an undated item, keeps the item dated since_dt
\* that follows it and stops at an older item behind that.
C9_Witness ==
    \E i \in 1..Len(call) :
        LET p == call[i]
        IN /\ p.ch \notin DOMAIN p.cp
           /\ p.resp.fail = "none"
           /\ p.lim >= 1
           /\ Len(p.stream) = 3
           /\ p.stream[1].date = None
           /\ p.stream[2].date = p.since
           /\ p.stream[3].date # None /\ p.stream[3].date < p.since
           /\ p.out = <<Rec(p.ch, p.stream[2])>>

\* C10: rate-limit resilience.  When the transport raises FloodWaitError
\* after it yielded k items of a source, the fetch sleeps and returns
\* exactly the dated ones among those k items, with nothing fetched again;
\* the run goes on with the next source and fetches every source; and when
\* the run has written its files, the artifact and the latest view hold the
\* k items and the artifact, the latest view and the checkpoints are
\* complete.
C10_RateLimitResilience ==
    \A i \in 1..Len(call) :
        LET p == call[i]
        IN p.end = "flood" =>
            /\ p.slept
            /\ p.out = DatedRecs(p.ch, Take(p.stream, p.resp.after))
            /\ pc["cli"] = "fetch" => idx["cli"] = Len(call) + 1
            /\ pc["cli"] # "fetch" =>
                   /\ Len(call) = Len(CHANNELS)
                   /\ \A j \in 1..Len(call) : call[j].ch = CHANNELS[j]
            /\ pc["cli"] \in {"return", "idle"} =>
                   /\ artifacts # <<>>
                   /\ artifacts[Len(artifacts)].st = "complete"
                   /\ Keys(p.out) \subseteq Keys(artifacts[Len(artifacts)].data)
                   /\ latestFile.st = "complete"
                   /\ Keys(p.out) \subseteq Keys(latestFile.data)
                   /\ cpFile.st = "complete"
                   /\ p.out # <<>> => /\ p.ch \in DOMAIN cpFile.data
                                      /\ cpFile.data[p.ch] = Max(Ids(p.out))

\* A run has completed whose first source raised FloodWaitError after two
\* items and whose second source returned an item.
C10_Witness ==
    /\ pc["cli"] = "idle"
    /\ Len(call) = Len(CHANNELS)
    /\ call[1].end = "flood"
    /\ call[1].resp.after = 2
    /\ Len(call[1].out) = 2
    /\ call[2].out # <<>>
    /\ cpFile.st = "complete"
    /\ Keys(call[1].out) \cup Keys(call[2].out) = Keys(latestFile.data)

\* C11: source-isolated failure.  When get_entity fails for a source, the
\* fetch returns no item for it without a sleep, the source's entry of
\* new_cp stays what the run loaded (present with its value, or absent);
\* the run goes on with the next source and fetches every source in order;
\* and when the run has written its files, they are complete, no item of
\* that source is in them and the source's checkpoint is the loaded one.
C11_SourceIsolatedFailure ==
    \A i \in 1..Len(call) :
        LET p == call[i]
        IN p.end = "entity" =>
            /\ p.out = <<>>
            /\ ~p.slept
            /\ p.ch \in DOMAIN p.new_cp <=> p.ch \in DOMAIN p.cp
            /\ p.ch \in DOMAIN p.cp => p.new_cp[p.ch] = p.cp[p.ch]
            /\ pc["cli"] = "fetch" => idx["cli"] = Len(call) + 1
            /\ pc["cli"] # "fetch" =>
                   /\ Len(call) = Len(CHANNELS)
                   /\ \A j \in 1..Len(call) : call[j].ch = CHANNELS[j]
            /\ pc["cli"] \in {"return", "idle"} =>
                   /\ artifacts # <<>>
                   /\ artifacts[Len(artifacts)].st = "complete"
                   /\ latestFile.st = "complete"
                   /\ cpFile.st = "complete"
                   /\ \A k \in Keys(latestFile.data)
                          \cup Keys(artifacts[Len(artifacts)].data) : k[1] # p.ch
                   /\ p.ch \in DOMAIN cpFile.data <=> p.ch \in DOMAIN p.cp
                   /\ p.ch \in DOMAIN p.cp => cpFile.data[p.ch] = p.cp[p.ch]

\* A run has completed whose first source had a checkpoint and a newer
\* message and could not be resolved, and whose second source returned an
\* item: the view holds the second source's items only, the first source's
\* checkpoint is the loaded one and the second source's has moved.
C11_Witness ==
    /\ pc["cli"] = "idle"
    /\ Len(call) = Len(CHANNELS)
    /\ call[1].end = "entity"
    /\ call[1].ch \in DOMAIN call[1].cp
    /\ \E m \in Range(chan[call[1].ch]) :
           m.date # None /\ m.id > call[1].cp[call[1].ch]
    /\ call[2].out # <<>>
    /\ Keys(latestFile.data) = Keys(call[2].out)
    /\ cpFile.st = "complete"
    /\ cpFile.data[call[1].ch] = call[1].cp[call[1].ch]
    /\ cpFile.data[call[2].ch] = Max(Ids(call[2].out))

\* ------------------------------------------------------------------------
\* Properties of failing runs (Spec).

\* C12: corrupt checkpoint degrades to empty.  A run that starts while the
\* checkpoints file exists and holds no complete JSON text loads the empty
\* mapping and goes on to its fetches as a bootstrap run.
C12_CorruptCheckpointDegrades ==
    [][(LoadCpRaises /\ nRuns' = nRuns + 1) =>
           \E r \in Runs : /\ pc[r] = "idle"
                           /\ pc'[r] = "fetch"
                           /\ cp'[r] = EmptyMap]_vars

\* ------------------------------------------------------------------------
\* Properties of the poll loop (SpecPoll).

\* C13: the poll loop survives failed runs.  The poll task ends only by
\* cancellation, whatever exception its runs raise; and whenever it is in
\* its sleep after a cycle, the next cycle is eventually started unless the
\* task is cancelled (for every cycle up to the bound on the runs).
C13_PollLoopSurvives ==
    /\ [](pc["poll"] = "done" => hist.cancelAt # "none")
    /\ \A n \in 1..(MaxRuns - 1) :
           (pc["poll"] = "sleep" /\ nRuns = n)
               ~> (nRuns = n + 1 \/ hist.cancelAt # "none")

\* The loop is in the fetches of its second cycle and no file was ever
\* written: the first cycle raised.
C13_Witness ==
    /\ nRuns = 2
    /\ pc["poll"] = "fetch"
    /\ Files = <<Absent, Absent, <<>>>>
    /\ hist.cancelAt = "none"

\* C14: no mutation on a failed run.  When a run ends by raising (it leaves
\* collect_all from anywhere but its return), the checkpoints file, the
\* latest view and the run artifacts are as the run found them.
C14_NoMutationOnFailedRun ==
    [][\A r \in Runs :
           (/\ Active(r)
            /\ pc[r] # "return"
            /\ hist.atStart[r] # <<>>
            /\ pc'[r] \notin {"fetch", "disconnect", "return"} \cup Range(WriteOrder))
           => Files' = hist.atStart[r]]_vars

\* C15: cancellation during the sleep.  Once the poll task was cancelled in
\* its sleep it has ended, and from then on no collection cycle is started
\* and no checkpoint, latest view or artifact is written.
C15_CancelDuringSleep ==
    /\ [](hist.cancelAt = "sleep" => pc["poll"] = "done")
    /\ [][hist.cancelAt = "sleep" =>
              /\ nRuns' = nRuns
              /\ Files' = Files
              /\ pc'["poll"] = "done"]_vars

\* The task was cancelled in the sleep after a completed cycle, with further
\* cycles within the bound and a message left that no cycle has fetched.
C15_Witness ==
    /\ hist.cancelAt = "sleep"
    /\ pc["poll"] = "done"
    /\ nRuns < MaxRuns
    /\ cpFile.st = "complete"
    /\ \E c \in ChannelSet :
           \E m \in Range(chan[c]) : c \notin DOMAIN cpFile.data \/ m.id > cpFile.data[c]

\* C16: cancellation does not interrupt a fetch.  A cancellation that comes
\* while the poll task is inside the fetch of a source leaves the task in
\* its fetches, to finish that source.
C16_CancelLetsFetchFinish ==
    [][(pc["poll"] = "fetch" /\ hist'.cancelAt # hist.cancelAt) =>
           /\ pc'["poll"] = "fetch"
           /\ results'["poll"] = results["poll"]]_vars

\* ------------------------------------------------------------------------
\* Properties of the stores across runs (Spec, SpecFetch, SpecRuns).

\* C17: run artifacts are append-only.  An artifact that a run has written
\* completely is still there, with the same content, after every later
\* step: no later run overwrites or changes it, also not a run that writes
\* within the same clock second.
C17_ArtifactsAppendOnly ==
    [][\A i \in 1..Len(artifacts) :
           artifacts[i].st = "complete" =>
               /\ Len(artifacts') >= i
               /\ artifacts'[i] = artifacts[i]]_vars

\* C18 as stated: the cap bound for every cap, 0 included.  A fetch never
\* returns more than `limit` items, in bootstrap and in incremental mode.
C18_CapBoundIncludingZero ==
    \A i \in 1..Len(call) : Len(call[i].out) <= call[i].lim

\* C18, amended: the cap bound for every cap of at least one.  In bootstrap
\* and in incremental mode a fetch never returns more than `limit` items
\* and stops as soon as it holds `limit` items; a limit of 0 is no cap: the
\* fetch then never stops for the cap.
C18_CapBound ==
    \A i \in 1..Len(call) :
        LET p == call[i]
        IN /\ p.lim >= 1 =>
                  /\ Len(p.out) <= p.lim
                  /\ Len(p.out) = p.lim <=> p.end = "cap"
                  /\ p.end = "cap" =>
                         \E n \in 1..Len(p.stream) :
                             /\ p.stream[n].date # None
                             /\ p.out = DatedRecs(p.ch, Take(p.stream, n))
           /\ p.lim = 0 => p.end # "cap"

\* An incremental fetch with a cap of one stops after the first of two
\* items the transport would have yielded.
C18_Witness ==
    \E i \in 1..Len(call) :
        LET p == call[i]
        IN /\ p.ch \in DOMAIN p.cp
           /\ p.lim = 1
           /\ Len(DatedRecs(p.ch, p.stream)) = 2
           /\ p.resp.fail = "none"
           /\ Len(p.out) = 1
           /\ p.end = "cap"

\* C19: no ingestion gap.  When a run has written its files, for every
\* source whose fetch returned an item (so that its checkpoint moved to
\* c_new), every dated item the transport held for the source above the old
\* checkpoint (or inside the horizon, without one) and up to c_new is in
\* the run's snapshot, also when the fetch was cut short by the cap, a
\* FloodWaitError or another transport error.
C19_NoIngestionGap ==
    pc["cli"] = "return" =>
        \A i \in 1..Len(call) :
            LET p == call[i]
            IN p.out # <<>> =>
                \A m \in Range(p.stream) :
                    (/\ m.date # None
                     /\ m.id <= p.new_cp[p.ch]
                     /\ p.min_id = None => m.date >= p.since)
                    => <<p.ch, ":", m.id>> \in Keys(latestFile.data)

\* C20: no lost checkpoint update under overlap.  When a run has saved its
\* checkpoints, whether or not it overlapped another run, every source has
\* a checkpoint at least as large as the one the run that finished before
\* it had saved: the persisted checkpoint never decreases, and after two
\* interleaved runs it is at least what either of them saved.
C20_NoLostUpdateUnderOverlap ==
    \A r \in Runs :
        (pc[r] = "return" /\ cpFile.st = "complete") =>
            \A c \in DOMAIN hist.curCp :
                /\ c \in DOMAIN cpFile.data
                /\ hist.curCp[c] <= cpFile.data[c]

====
